---- MODULE Spec2Model ----
(***************************************************************************)
(* Replay backend of the record-and-replay demo: the POST /api/run handler *)
(* of server.js, one asynchronous handler instance per request.  Every     *)
(* `await` of the handler is a suspension point; the code between two      *)
(* awaits is one action (the loop head is an extra position).  The        *)
(* Puppeteer driver is the environment: each of its calls either resolves  *)
(* or rejects.                                                             *)
(***************************************************************************)
EXTENDS Integers, Sequences, FiniteSets, TLC

(***************************************************************************)
(* Bounds of the model.                                                    *)
(***************************************************************************)
MaxSteps == 2          \* longest steps array submitted
NumReq == 2            \* request slots of the server

Reqs == 1..NumReq

(***************************************************************************)
(* JavaScript values.  Numbers are exact rationals n/d (d > 0, lowest      *)
(* terms), so that `/` is a real division and not an integer one.          *)
(***************************************************************************)
RECURSIVE GCD(_, _)
GCD(a, b) == IF b = 0 THEN a ELSE GCD(b, a % b)

Abs(i) == IF i < 0 THEN -i ELSE i

Num(n, d) ==
  LET g == GCD(Abs(n), Abs(d))
      s == IF d < 0 THEN -1 ELSE 1
  IN  [t |-> "number", n |-> (s * n) \div g, d |-> (s * d) \div g]

Number(i) == Num(i, 1)

Str(s) == [t |-> "string", s |-> s]

Undef == [t |-> "undefined"]

Null == [t |-> "null"]

Arr(items) == [t |-> "array", items |-> items]

IsNumber(v) == v.t = "number"

IsString(v) == v.t = "string"

IsArray(v) == v.t = "array"

\* ToBoolean
Truthy(v) ==
  CASE v.t = "undefined" -> FALSE
    [] v.t = "null"      -> FALSE
    [] v.t = "number"    -> v.n # 0
    [] v.t = "string"    -> v.s # ""
    [] OTHER             -> TRUE

\* a || b
JsOr(a, b) == IF Truthy(a) THEN a ELSE b

\* destructuring default: `name = dflt` applies to undefined only
Default(v, dflt) == IF v = Undef THEN dflt ELSE v

\* a / b on numbers, b # 0
JsDiv(a, b) == Num(a.n * b.d, a.d * b.n)

JsAdd(a, b) == Num(a.n * b.d + b.n * a.d, a.d * b.d)

JsLess(a, b) == a.n * b.d < b.n * a.d

JsLeq(a, b) == a.n * b.d <= b.n * a.d

MathMax(a, b) == IF JsLess(a, b) THEN b ELSE a

(***************************************************************************)
(* Program constants.                                                      *)
(***************************************************************************)
DefaultSpeed == 1

DefaultUrl == "https://example.com"

ClickDelayMs == 50

BaseCharDelayMs == 50

CloseDelayMs == 30000

\* Date.now() when the page is loaded (any positive epoch time)
PageLoadTime == 1000

(***************************************************************************)
(* Request bodies the clients send.                                        *)
(***************************************************************************)
Step(type, selector, x, y, value, delay) ==
  [type |-> type, selector |-> selector, x |-> x, y |-> y,
   value |-> value, delay |-> delay]

StepPool ==
  { Step(Str("click"), Str("#a"), Undef, Undef, Undef, Number(100)),
    Step(Str("click"), Undef, Number(10), Number(20), Undef, Number(1000)),
    Step(Str("click"), Str("#a"), Number(10), Number(20), Undef, Number(0)),
    Step(Str("click"), Str(""), Number(10), Number(20), Undef, Number(-100)),
    Step(Str("click"), Undef, Undef, Undef, Undef, Number(50)),
    Step(Str("type"), Str("#b"), Undef, Undef, Str("hi"), Number(50)),
    Step(Str("type"), Str(""), Undef, Undef, Str("hi"), Number(100)),
    Step(Str("type"), Undef, Undef, Undef, Str("hi"), Undef),
    Step(Str("type"), Str("#b"), Undef, Undef, Number(5), Number(100)),
    Step(Str("hover"), Str("#a"), Undef, Undef, Undef, Number(100)) }

StepLists == UNION { [1..n -> StepPool] : n \in 0..MaxSteps }

StepsValues == {Undef, Str("click")} \cup { Arr(q) : q \in StepLists }

Speeds == {Undef, Number(0), Number(-1), Num(1, 2), Number(1), Number(2)}

Urls == {Undef, Str("https://target.test")}

Body(steps, speed, url) ==
  [t |-> "object", steps |-> steps, speed |-> speed, url |-> url]

Bodies ==
  {Undef} \cup { Body(s, sp, u) : s \in StepsValues, sp \in Speeds, u \in Urls }

NoRequest == [t |-> "none"]

(***************************************************************************)
(* State.                                                                  *)
(***************************************************************************)
VARIABLES
  req,            \* req[r]: body of the request of slot r, or NoRequest
  pc,             \* pc[r]: position of the handler of request r
  idx,            \* idx[r]: number of steps the for loop has taken up
  browser,        \* browser[r]: "none", "open" or "closed"
  effects,        \* effects[r]: driver calls, responses, logs, in order
  timer,          \* timer[r]: the setTimeout of the teardown
  wakeAt,         \* wakeAt[r]: when the pending waitForTimeout resolves
  lastTimestamp,  \* lastTimestamp[r]
  outcomes,       \* outcomes[r]: history, how each loop iteration ended
  now,            \* the clock, in milliseconds
  handle,         \* handle[r]: the browser object `browser`/`page` refer to
  launches        \* number of browsers puppeteer.launch has created

\* the browser objects of the driver and the handlers' references to them
sessVars == <<handle, launches>>

(***************************************************************************)
(* State of the recorder page (App.tsx).                                   *)
(***************************************************************************)
VARIABLES
  ui,             \* the useState values as of the last render
  queue,          \* state updates scheduled since the last render
  recordingRef,   \* recordingRef.current
  lastTimeRef,    \* lastTimeRef.current
  clock,          \* Date.now() of the page
  sent,           \* the fetches of runAutomation: body posted and state
  trace           \* history of the latest recording: its start and the events
                  \* recorded, each with its time and the delay stored for it

uiVars == <<ui, queue, recordingRef, lastTimeRef, clock, sent, trace>>

srvVars ==
  <<req, pc, idx, browser, effects, timer, wakeAt, lastTimestamp, outcomes,
    now, sessVars>>

vars == <<srvVars, uiVars>>

\* const { steps, speed = 1, url = "https://example.com" } = req.body || {};
ReqBody(r) == JsOr(req[r], Body(Undef, Undef, Undef))

steps(r) == ReqBody(r).steps

speed(r) == Default(ReqBody(r).speed, Number(DefaultSpeed))

url(r) == Default(ReqBody(r).url, Str(DefaultUrl))

NoTimer == [state |-> "unset", ms |-> Number(0), due |-> Number(0)]

\* no handler has run yet
HandlersIdle ==
  /\ pc = [r \in Reqs |-> "idle"]
  /\ idx = [r \in Reqs |-> 0]
  /\ browser = [r \in Reqs |-> "none"]
  /\ effects = [r \in Reqs |-> <<>>]
  /\ timer = [r \in Reqs |-> NoTimer]
  /\ wakeAt = [r \in Reqs |-> Number(0)]
  /\ lastTimestamp = [r \in Reqs |-> Number(0)]
  /\ outcomes = [r \in Reqs |-> <<>>]
  /\ now = Number(0)
  /\ handle = [r \in Reqs |-> 0]
  /\ launches = 0

\* the first render of App: the useState and useRef initial values
PageLoaded ==
  /\ ui = [recording |-> FALSE, steps |-> <<>>, lastTime |-> Null,
           speed |-> Number(DefaultSpeed), targetUrl |-> Str(DefaultUrl),
           status |-> "", error |-> ""]
  /\ queue = <<>>
  /\ recordingRef = FALSE
  /\ lastTimeRef = Null
  /\ clock = PageLoadTime
  /\ sent = <<>>
  /\ trace = <<>>

\* one request in flight, with the full variety of bodies
Init ==
  /\ \E b \in Bodies : req = [r \in Reqs |-> IF r = 1 THEN b ELSE NoRequest]
  /\ HandlersIdle
  /\ PageLoaded

\* the bodies of the concurrent requests
ConcBodies ==
  { Body(Arr(<<Step(Str("click"), Str("#a"), Undef, Undef, Undef, Number(100)),
               Step(Str("click"), Undef, Number(10), Number(20), Undef,
                    Number(100000))>>),
         Number(2), Undef),
    Body(Arr(<<Step(Str("type"), Str("#b"), Undef, Undef, Str("hi"),
                    Number(50))>>),
         Undef, Str("https://target.test")) }

\* every slot holds a request: the handlers run concurrently
InitConc ==
  /\ req \in [Reqs -> ConcBodies]
  /\ HandlersIdle
  /\ PageLoaded

(***************************************************************************)
(* Observable effects of a handler, in order and time-stamped: the driver  *)
(* calls it issues (i is the loop iteration, 0 outside the loop), how the  *)
(* driver settles them, the responses, the log lines and the timer.        *)
(***************************************************************************)
Call(op) == [op |-> op, i |-> 0, at |-> now]

Goto(u) == [op |-> "goto", i |-> 0, url |-> u, at |-> now]

WaitForTimeout(i, ms) == [op |-> "waitForTimeout", i |-> i, ms |-> ms, at |-> now]

Click(i, selector) ==
  [op |-> "click", i |-> i, selector |-> selector,
   delay |-> Number(ClickDelayMs), at |-> now]

MouseClick(i, x, y) ==
  [op |-> "mouse.click", i |-> i, x |-> x, y |-> y,
   delay |-> Number(ClickDelayMs), at |-> now]

Focus(i, selector) == [op |-> "focus", i |-> i, selector |-> selector, at |-> now]

KeyboardType(i, text, ms) ==
  [op |-> "keyboard.type", i |-> i, text |-> text, delay |-> ms, at |-> now]

Settled(call, i, result) ==
  [op |-> "settled", i |-> i, call |-> call, result |-> result, at |-> now]

Respond(status, body) ==
  [op |-> "respond", i |-> 0, status |-> status, body |-> body, at |-> now]

ConsoleError(msg) == [op |-> "console.error", i |-> 0, msg |-> msg, at |-> now]

SetTimeout(ms) == [op |-> "setTimeout", i |-> 0, ms |-> ms, at |-> now]

\* the calls made on a browser object or on its page
SessionOps ==
  {"newPage", "goto", "waitForTimeout", "click", "mouse.click", "focus",
   "keyboard.type", "close"}

\* e, issued on browser object h when it is a call on a browser or page
On(e, h) == IF e.op \in SessionOps THEN e @@ [on |-> h] ELSE e

EmitOn(r, es, h) ==
  effects' = [effects EXCEPT ![r] = @ \o [k \in 1..Len(es) |-> On(es[k], h)]]

\* the handler's calls go to the browser its own `browser`/`page` refer to
Emit(r, es) == EmitOn(r, es, handle[r])

(***************************************************************************)
(* The clock: it advances only to the earliest pending deadline (a         *)
(* waitForTimeout or a teardown timer); driver calls take no model time.   *)
(***************************************************************************)
Deadlines ==
  { wakeAt[r] : r \in { q \in Reqs : pc[q] = "waitForTimeout" } }
    \cup { timer[r].due : r \in { q \in Reqs : timer[q].state = "pending" } }

\* a handler or a close that goes on without any time passing
Runnable(r) ==
  \/ req[r] # NoRequest /\ pc[r] \notin {"waitForTimeout", "done"}
  \/ timer[r].state = "closing"

Tick ==
  /\ \A r \in Reqs : ~Runnable(r)
  /\ \E d \in Deadlines :
       /\ \A e \in Deadlines : JsLeq(d, e)
       /\ JsLess(now, d)
       /\ now' = d
  /\ UNCHANGED <<uiVars, sessVars, req, pc, idx, browser, effects, timer, wakeAt,
                 lastTimestamp, outcomes>>

(***************************************************************************)
(* app.post("/api/run"): validation and launch.                            *)
(***************************************************************************)
ValidSteps_ArrayOnly(v) == IsArray(v)

\* !(!Array.isArray(steps) || steps.length === 0)
ValidSteps(v) == IsArray(v) /\ Len(v.items) # 0

Receive_SpeedValidated(r) ==
  /\ pc[r] = "idle"
  /\ req[r] # NoRequest
  /\ IF ~ValidSteps(steps(r)) \/ (IsNumber(speed(r)) /\ speed(r).n <= 0)
        THEN /\ Emit(r, <<Respond(400, "steps array is required")>>)
             /\ pc' = [pc EXCEPT ![r] = "done"]
        ELSE /\ Emit(r, <<Call("launch")>>)
             /\ pc' = [pc EXCEPT ![r] = "launch"]
  /\ UNCHANGED <<uiVars, sessVars, req, idx, browser, timer, wakeAt, lastTimestamp, outcomes,
                 now>>

Receive(r) ==
  /\ pc[r] = "idle"
  /\ req[r] # NoRequest
  /\ IF ~ValidSteps(steps(r))
        THEN /\ Emit(r, <<Respond(400, "steps array is required")>>)
             /\ pc' = [pc EXCEPT ![r] = "done"]
        ELSE /\ Emit(r, <<Call("launch")>>)
             /\ pc' = [pc EXCEPT ![r] = "launch"]
  /\ UNCHANGED <<uiVars, sessVars, req, idx, browser, timer, wakeAt, lastTimestamp, outcomes,
                 now>>

Fatal_LogOnly(r, call) ==
  /\ Emit(r, <<Settled(call, idx[r], "rejected"),
               ConsoleError("Automation run failed")>>)
  /\ pc' = [pc EXCEPT ![r] = "done"]

\* catch (err) of the handler, entered when `call` rejects
Fatal(r, call) ==
  /\ Emit(r, <<Settled(call, idx[r], "rejected"),
               ConsoleError("Automation run failed"),
               Respond(500, "Automation run failed")>>)
  /\ pc' = [pc EXCEPT ![r] = "done"]

LaunchResolved_SharedBrowser(r) ==
  /\ pc[r] = "launch"
  /\ browser' = [browser EXCEPT ![r] = "open"]
  /\ launches' = IF launches = 0 THEN 1 ELSE launches
  /\ handle' = [handle EXCEPT ![r] = 1]
  /\ EmitOn(r, <<Settled("launch", 0, "resolved"), Call("newPage")>>, 1)
  /\ pc' = [pc EXCEPT ![r] = "newPage"]
  /\ UNCHANGED <<uiVars, req, idx, timer, wakeAt, lastTimestamp, outcomes,
                 now>>

\* const browser = await puppeteer.launch(...): a new browser object
LaunchResolved(r) ==
  /\ pc[r] = "launch"
  /\ browser' = [browser EXCEPT ![r] = "open"]
  /\ launches' = launches + 1
  /\ handle' = [handle EXCEPT ![r] = launches + 1]
  /\ EmitOn(r, <<Settled("launch", 0, "resolved"), Call("newPage")>>,
            launches + 1)
  /\ pc' = [pc EXCEPT ![r] = "newPage"]
  /\ UNCHANGED <<uiVars, req, idx, timer, wakeAt, lastTimestamp, outcomes,
                 now>>

LaunchRejected(r) ==
  /\ pc[r] = "launch"
  /\ Fatal(r, "launch")
  /\ UNCHANGED <<uiVars, sessVars, req, idx, browser, timer, wakeAt, lastTimestamp, outcomes,
                 now>>

NewPageResolved(r) ==
  /\ pc[r] = "newPage"
  /\ Emit(r, <<Settled("newPage", 0, "resolved"), Goto(url(r))>>)
  /\ pc' = [pc EXCEPT ![r] = "goto"]
  /\ UNCHANGED <<uiVars, sessVars, req, idx, browser, timer, wakeAt, lastTimestamp, outcomes,
                 now>>

NewPageRejected(r) ==
  /\ pc[r] = "newPage"
  /\ Fatal(r, "newPage")
  /\ UNCHANGED <<uiVars, sessVars, req, idx, browser, timer, wakeAt, lastTimestamp, outcomes,
                 now>>

GotoResolved(r) ==
  /\ pc[r] = "goto"
  /\ Emit(r, <<Settled("goto", 0, "resolved")>>)
  /\ lastTimestamp' = [lastTimestamp EXCEPT ![r] = Number(0)]
  /\ pc' = [pc EXCEPT ![r] = "loop"]
  /\ UNCHANGED <<uiVars, sessVars, req, idx, browser, timer, wakeAt, outcomes, now>>

GotoRejected_Swallowed(r) ==
  /\ pc[r] = "goto"
  /\ Emit(r, <<Settled("goto", 0, "rejected"),
               ConsoleError("Automation run failed")>>)
  /\ pc' = [pc EXCEPT ![r] = "loop"]
  /\ UNCHANGED <<uiVars, sessVars, req, idx, browser, timer, wakeAt, lastTimestamp, outcomes,
                 now>>

GotoRejected(r) ==
  /\ pc[r] = "goto"
  /\ Fatal(r, "goto")
  /\ UNCHANGED <<uiVars, sessVars, req, idx, browser, timer, wakeAt, lastTimestamp, outcomes,
                 now>>

(***************************************************************************)
(* The replay loop: for (const step of steps).                             *)
(***************************************************************************)
delay_Multiplied(step, sp) ==
  LET a == JsOr(step.delay, Number(0))
      b == JsOr(sp, Number(1))
  IN  MathMax(Number(0), Num(a.n * b.n, a.d * b.d))

\* const delay = Math.max(0, (step.delay || 0) / (speed || 1));
delay(step, sp) ==
  MathMax(Number(0),
          JsDiv(JsOr(step.delay, Number(0)), JsOr(sp, Number(1))))

charDelay_Unscaled(sp) == Number(BaseCharDelayMs)

\* { delay: 50 / (speed || 1) }
charDelay(sp) == JsDiv(Number(BaseCharDelayMs), JsOr(sp, Number(1)))

Dispatch_SelectorUnchecked(step, i) ==
  IF step.type = Str("click")
    THEN IF Truthy(step.selector)
           THEN [pc |-> "click", eff |-> <<Click(i, step.selector)>>]
           ELSE IF IsNumber(step.x) /\ IsNumber(step.y)
                  THEN [pc |-> "mouse.click",
                        eff |-> <<MouseClick(i, step.x, step.y)>>]
                  ELSE [pc |-> "stepEnd", eff |-> <<>>]
    ELSE IF step.type = Str("type")
           THEN IF ~IsString(step.value)
                  THEN [pc |-> "continue", eff |-> <<>>]
                  ELSE [pc |-> "focus", eff |-> <<Focus(i, step.selector)>>]
           ELSE [pc |-> "stepEnd", eff |-> <<>>]

\* The dispatch on step.type up to its first await: the position reached
\* and the driver call issued.  "stepEnd" is the end of the loop body,
\* "continue" the continue statement.
Dispatch(step, i) ==
  IF step.type = Str("click")
    THEN IF Truthy(step.selector)
           THEN [pc |-> "click", eff |-> <<Click(i, step.selector)>>]
           ELSE IF IsNumber(step.x) /\ IsNumber(step.y)
                  THEN [pc |-> "mouse.click",
                        eff |-> <<MouseClick(i, step.x, step.y)>>]
                  ELSE [pc |-> "stepEnd", eff |-> <<>>]
    ELSE IF step.type = Str("type")
           THEN IF ~Truthy(step.selector) \/ ~IsString(step.value)
                  THEN [pc |-> "continue", eff |-> <<>>]
                  ELSE [pc |-> "focus", eff |-> <<Focus(i, step.selector)>>]
           ELSE [pc |-> "stepEnd", eff |-> <<>>]

Outcome(r, i, status) ==
  outcomes' =
    [outcomes EXCEPT ![r] = Append(@, [index |-> i, status |-> status])]

StepEnd_SharedAcrossRuns(r, status) ==
  /\ lastTimestamp' = [lastTimestamp EXCEPT ![r] = now]
  /\ Outcome(r, idx[r],
             IF \E q \in Reqs \ {r} : pc[q] \in {"click", "mouse.click", "focus", "keyboard.type"}
               THEN "skipped" ELSE status)
  /\ pc' = [pc EXCEPT ![r] = "loop"]

\* lastTimestamp = Date.now(); and back to the loop head
StepEnd(r, status) ==
  /\ lastTimestamp' = [lastTimestamp EXCEPT ![r] = now]
  /\ Outcome(r, idx[r], status)
  /\ pc' = [pc EXCEPT ![r] = "loop"]

\* the loop body of step i after its wait, with `pre` already in the log
Enter(r, i, pre) ==
  LET d == Dispatch(steps(r).items[i], i)
  IN  /\ Emit(r, pre \o d.eff)
      /\ IF d.pc \in {"stepEnd", "continue"}
           THEN /\ pc' = [pc EXCEPT ![r] = "loop"]
                /\ Outcome(r, i, "skipped")
                /\ lastTimestamp' =
                     IF d.pc = "stepEnd"
                       THEN [lastTimestamp EXCEPT ![r] = now]
                       ELSE lastTimestamp
           ELSE /\ pc' = [pc EXCEPT ![r] = d.pc]
                /\ UNCHANGED <<outcomes, lastTimestamp>>

NextStep(r) ==
  /\ pc[r] = "loop"
  /\ idx[r] < Len(steps(r).items)
  /\ LET i == idx[r] + 1
         ms == delay(steps(r).items[i], speed(r))
     IN  /\ idx' = [idx EXCEPT ![r] = i]
         /\ IF Truthy(ms)
              THEN /\ Emit(r, <<WaitForTimeout(i, ms)>>)
                   /\ wakeAt' = [wakeAt EXCEPT ![r] = JsAdd(now, ms)]
                   /\ pc' = [pc EXCEPT ![r] = "waitForTimeout"]
                   /\ UNCHANGED <<outcomes, lastTimestamp>>
              ELSE /\ Enter(r, i, <<>>)
                   /\ UNCHANGED wakeAt
  /\ UNCHANGED <<uiVars, sessVars, req, browser, timer, now>>

WaitResolved_NotAwaited(r) ==
  /\ pc[r] = "waitForTimeout"
  /\ Enter(r, idx[r], <<Settled("waitForTimeout", idx[r], "resolved")>>)
  /\ UNCHANGED <<uiVars, sessVars, req, idx, browser, timer, wakeAt, now>>

WaitResolved(r) ==
  /\ pc[r] = "waitForTimeout"
  /\ JsLeq(wakeAt[r], now)
  /\ Enter(r, idx[r], <<Settled("waitForTimeout", idx[r], "resolved")>>)
  /\ UNCHANGED <<uiVars, sessVars, req, idx, browser, timer, wakeAt, now>>

ClickResolved(r) ==
  /\ pc[r] = "click"
  /\ Emit(r, <<Settled("click", idx[r], "resolved")>>)
  /\ StepEnd(r, "executed")
  /\ UNCHANGED <<uiVars, sessVars, req, idx, browser, timer, wakeAt, now>>

ClickRejected(r) ==
  /\ pc[r] = "click"
  /\ Emit(r, <<Settled("click", idx[r], "rejected"),
               ConsoleError("Click by selector failed")>>)
  /\ StepEnd(r, "failed")
  /\ UNCHANGED <<uiVars, sessVars, req, idx, browser, timer, wakeAt, now>>

MouseClickResolved(r) ==
  /\ pc[r] = "mouse.click"
  /\ Emit(r, <<Settled("mouse.click", idx[r], "resolved")>>)
  /\ StepEnd(r, "executed")
  /\ UNCHANGED <<uiVars, sessVars, req, idx, browser, timer, wakeAt, now>>

MouseClickRejected_Contained(r) ==
  /\ pc[r] = "mouse.click"
  /\ Emit(r, <<Settled("mouse.click", idx[r], "rejected"),
               ConsoleError("Click by coordinates failed")>>)
  /\ StepEnd(r, "failed")
  /\ UNCHANGED <<uiVars, sessVars, req, idx, browser, timer, wakeAt, now>>

MouseClickRejected(r) ==
  /\ pc[r] = "mouse.click"
  /\ Fatal(r, "mouse.click")
  /\ Outcome(r, idx[r], "failed")
  /\ UNCHANGED <<uiVars, sessVars, req, idx, browser, timer, wakeAt, lastTimestamp, now>>

FocusResolved(r) ==
  /\ pc[r] = "focus"
  /\ Emit(r, <<Settled("focus", idx[r], "resolved"),
               KeyboardType(idx[r], steps(r).items[idx[r]].value,
                            charDelay(speed(r)))>>)
  /\ pc' = [pc EXCEPT ![r] = "keyboard.type"]
  /\ UNCHANGED <<uiVars, sessVars, req, idx, browser, timer, wakeAt, lastTimestamp, outcomes,
                 now>>

FocusRejected_TypesAnyway(r) ==
  /\ pc[r] = "focus"
  /\ Emit(r, <<Settled("focus", idx[r], "rejected"),
               ConsoleError("Type failed"),
               KeyboardType(idx[r], steps(r).items[idx[r]].value,
                            charDelay(speed(r)))>>)
  /\ pc' = [pc EXCEPT ![r] = "keyboard.type"]
  /\ UNCHANGED <<uiVars, sessVars, req, idx, browser, timer, wakeAt, lastTimestamp, outcomes,
                 now>>

FocusRejected(r) ==
  /\ pc[r] = "focus"
  /\ Emit(r, <<Settled("focus", idx[r], "rejected"),
               ConsoleError("Type failed")>>)
  /\ StepEnd(r, "failed")
  /\ UNCHANGED <<uiVars, sessVars, req, idx, browser, timer, wakeAt, now>>

TypeResolved(r) ==
  /\ pc[r] = "keyboard.type"
  /\ Emit(r, <<Settled("keyboard.type", idx[r], "resolved")>>)
  /\ StepEnd(r, "executed")
  /\ UNCHANGED <<uiVars, sessVars, req, idx, browser, timer, wakeAt, now>>

TypeRejected(r) ==
  /\ pc[r] = "keyboard.type"
  /\ Emit(r, <<Settled("keyboard.type", idx[r], "rejected"),
               ConsoleError("Type failed")>>)
  /\ StepEnd(r, "failed")
  /\ UNCHANGED <<uiVars, sessVars, req, idx, browser, timer, wakeAt, now>>

(***************************************************************************)
(* End of the run: the response, then the teardown timer.                  *)
(***************************************************************************)
Finish_CloseAtOnce(r) ==
  /\ pc[r] = "loop"
  /\ idx[r] = Len(steps(r).items)
  /\ Emit(r, <<Respond(200, "ok"), Call("close")>>)
  /\ timer' = [timer EXCEPT ![r] =
                 [state |-> "closing", ms |-> Number(0), due |-> now]]
  /\ pc' = [pc EXCEPT ![r] = "done"]
  /\ UNCHANGED <<uiVars, sessVars, req, idx, browser, wakeAt, lastTimestamp, outcomes, now>>

Finish(r) ==
  /\ pc[r] = "loop"
  /\ idx[r] = Len(steps(r).items)
  /\ Emit(r, <<Respond(200, "ok"), SetTimeout(Number(CloseDelayMs))>>)
  /\ timer' = [timer EXCEPT ![r] =
                 [state |-> "pending", ms |-> Number(CloseDelayMs),
                  due |-> JsAdd(now, Number(CloseDelayMs))]]
  /\ pc' = [pc EXCEPT ![r] = "done"]
  /\ UNCHANGED <<uiVars, sessVars, req, idx, browser, wakeAt, lastTimestamp, outcomes, now>>

\* the timer callback: browser.close()
TimerFire(r) ==
  /\ timer[r].state = "pending"
  /\ JsLeq(timer[r].due, now)
  /\ Emit(r, <<Call("close")>>)
  /\ timer' = [timer EXCEPT ![r].state = "closing"]
  /\ UNCHANGED <<uiVars, sessVars, req, pc, idx, browser, wakeAt, lastTimestamp, outcomes, now>>

CloseResolved(r) ==
  /\ timer[r].state = "closing"
  /\ Emit(r, <<Settled("close", 0, "resolved")>>)
  /\ browser' = [browser EXCEPT ![r] = "closed"]
  /\ timer' = [timer EXCEPT ![r].state = "closed"]
  /\ UNCHANGED <<uiVars, sessVars, req, pc, idx, wakeAt, lastTimestamp, outcomes, now>>

\* .catch(() => {})
CloseRejected(r) ==
  /\ timer[r].state = "closing"
  /\ Emit(r, <<Settled("close", 0, "rejected")>>)
  /\ timer' = [timer EXCEPT ![r].state = "swallowed"]
  /\ UNCHANGED <<uiVars, sessVars, req, pc, idx, browser, wakeAt, lastTimestamp, outcomes, now>>

\* one step of the handler invocation (or of the close timer) of request r
Handler(r) ==
  \/ Receive(r)
  \/ LaunchResolved(r)
  \/ LaunchRejected(r)
  \/ NewPageResolved(r)
  \/ NewPageRejected(r)
  \/ GotoResolved(r)
  \/ GotoRejected(r)
  \/ NextStep(r)
  \/ WaitResolved(r)
  \/ ClickResolved(r)
  \/ ClickRejected(r)
  \/ MouseClickResolved(r)
  \/ MouseClickRejected(r)
  \/ FocusResolved(r)
  \/ FocusRejected(r)
  \/ TypeResolved(r)
  \/ TypeRejected(r)
  \/ Finish(r)
  \/ TimerFire(r)
  \/ CloseResolved(r)
  \/ CloseRejected(r)

Next ==
  \/ Tick
  \/ \E r \in Reqs : Handler(r)

Spec == Init /\ [][Next]_vars

SpecConc == InitConc /\ [][Next]_vars

\* every pending driver call returns or throws, and due timers fire
Fairness == WF_vars(Tick) /\ \A r \in Reqs : WF_vars(Handler(r))

\* the requests of the runs checked under fairness
FairPool ==
  { s \in StepPool : s.delay \in {Number(1000), Number(50)} \/ s.selector = Str("#a") }

FairBodies ==
  {Undef} \cup
  { Body(s, sp, Undef) :
      s \in {Undef} \cup { Arr(q) : q \in {<<>>} \cup [1..1 -> StepPool] \cup [1..2 -> FairPool] },
      sp \in {Undef, Number(2)} }

InitFair ==
  /\ \E b \in FairBodies : req = [r \in Reqs |-> IF r = 1 THEN b ELSE NoRequest]
  /\ HandlersIdle
  /\ PageLoaded

FairSpec == InitFair /\ [][Next]_vars /\ Fairness

(***************************************************************************)
(* Reading the log of a request.                                           *)
(***************************************************************************)
Responses(r) == SelectSeq(effects[r], LAMBDA e : e.op = "respond")

Issued(r, ops) == { k \in 1..Len(effects[r]) : effects[r][k].op \in ops }

SettledAs(r, call, result) ==
  \E k \in 1..Len(effects[r]) :
     /\ effects[r][k].op = "settled"
     /\ effects[r][k].call = call
     /\ effects[r][k].result = result

StepOps == {"waitForTimeout", "click", "mouse.click", "focus", "keyboard.type"}

Received(r) == req[r] # NoRequest /\ pc[r] # "idle"

\* the submitted `steps` is missing, not an array, or an empty array
StepsRejectable(r) ==
  \/ req[r] = Undef
  \/ req[r].steps = Undef
  \/ req[r].steps.t # "array"
  \/ req[r].steps.items = <<>>

(***************************************************************************)
(* C1: a request whose `steps` is missing, not an array or an empty array  *)
(* is answered with exactly one HTTP 400 validation error, and no browser  *)
(* is ever launched for it (no launch call, no session, no driver call).   *)
(***************************************************************************)
C1_InvalidStepsRejected ==
  \A r \in Reqs :
     (Received(r) /\ StepsRejectable(r)) =>
        /\ pc[r] = "done"
        /\ Len(Responses(r)) = 1
        /\ Responses(r)[1].status = 400
        /\ Issued(r, {"launch", "newPage", "goto"} \cup StepOps) = {}
        /\ browser[r] = "none"
        /\ timer[r].state = "unset"

C1_Witness ==
  \E r \in Reqs :
     /\ Received(r)
     /\ req[r] # Undef
     /\ req[r].steps = Arr(<<>>)
     /\ Len(Responses(r)) = 1
     /\ Responses(r)[1].status = 400

\* a request the validation lets through: `steps` is a non-empty array
StepsGiven(r) ==
  /\ req[r] # NoRequest
  /\ req[r] # Undef
  /\ req[r].steps.t = "array"
  /\ req[r].steps.items # <<>>

NumSteps(r) == Len(req[r].steps.items)

StepAt(r, i) == req[r].steps.items[i]

SpeedNonPositive(r) ==
  /\ req[r] # NoRequest
  /\ req[r] # Undef
  /\ req[r].speed.t = "number"
  /\ req[r].speed.n <= 0

\* the waits issued so far, in order
Waits(r) ==
  LET w == SelectSeq(effects[r], LAMBDA e : e.op = "waitForTimeout")
  IN  [k \in 1..Len(w) |-> w[k].ms]

\* the waits that F demands of the steps taken up so far
DemandedWaits(r, F(_, _)) ==
  SelectSeq([i \in 1..idx[r] |-> F(StepAt(r, i), req[r].speed)],
            LAMBDA m : m.n # 0)

RunOk(r) ==
  /\ pc[r] = "done"
  /\ Len(Responses(r)) = 1
  /\ Responses(r)[1].status = 200
  /\ Responses(r)[1].body = "ok"

(***************************************************************************)
(* C2 (as stated): a request with a speed factor <= 0 and a non-empty      *)
(* steps array fails validation: the run never starts, no session is       *)
(* acquired and no step is executed.                                       *)
(***************************************************************************)
C2_NonPositiveSpeedRejected ==
  \A r \in Reqs :
     (Received(r) /\ StepsGiven(r) /\ SpeedNonPositive(r)) =>
        /\ Issued(r, {"launch"} \cup StepOps) = {}
        /\ browser[r] = "none"
        /\ idx[r] = 0
        /\ Len(Responses(r)) = 1
        /\ Responses(r)[1].status = 400

\* max(0, delay / speed) with speed 0 acting as 1, for a speed <= 0
WaitNonPositiveSpeed(step, sp) ==
  LET d == IF step.delay = Undef THEN Number(0) ELSE step.delay
  IN  IF sp.n = 0
        THEN IF d.n > 0 THEN d ELSE Number(0)
        ELSE IF d.n < 0 THEN Num(d.n * sp.d, d.d * sp.n) ELSE Number(0)

(***************************************************************************)
(* C2 (amended): a request with a speed factor <= 0 and a non-empty steps  *)
(* array is not rejected: no validation error is sent, the session launch  *)
(* is attempted, the steps are taken up once launch and navigation have    *)
(* succeeded, and the wait before a step is max(0, delay / speed) with a   *)
(* speed of 0 acting as 1.                                                 *)
(***************************************************************************)
C2_NonPositiveSpeedRuns ==
  \A r \in Reqs :
     (Received(r) /\ StepsGiven(r) /\ SpeedNonPositive(r)) =>
        /\ effects[r][1].op = "launch"
        /\ \A k \in Issued(r, {"respond"}) : effects[r][k].status # 400
        /\ (pc[r] = "done" /\ SettledAs(r, "goto", "resolved")) => idx[r] >= 1
        /\ Waits(r) = DemandedWaits(r, WaitNonPositiveSpeed)

C2_Witness ==
  \E r \in Reqs :
     /\ StepsGiven(r)
     /\ SpeedNonPositive(r)
     /\ req[r].speed.n < 0
     /\ RunOk(r)
     /\ Len(Waits(r)) = 1
     /\ Issued(r, {"mouse.click"}) # {}

(***************************************************************************)
(* C3: when launch and navigation succeed, a run over N steps processes    *)
(* exactly the N steps, each once and in list order, whatever the outcome  *)
(* of the individual steps.                                                *)
(***************************************************************************)
C3_AllStepsProcessedInOrder ==
  \A r \in Reqs :
     (StepsGiven(r) /\ pc[r] = "done" /\ SettledAs(r, "goto", "resolved")) =>
        /\ Len(outcomes[r]) = NumSteps(r)
        /\ \A i \in 1..NumSteps(r) : outcomes[r][i].index = i
        /\ idx[r] = NumSteps(r)

(***************************************************************************)
(* C4: once a selector click of a step has failed, the run goes on: every  *)
(* later step is processed and the run ends with {ok: true}.               *)
(***************************************************************************)
C4_SelectorClickFailureContained ==
  \A r \in Reqs :
     (StepsGiven(r) /\ SettledAs(r, "click", "rejected")) =>
        /\ pc[r] = "done" => RunOk(r)
        /\ pc[r] = "done" => idx[r] = NumSteps(r)
        /\ \A k \in Issued(r, {"respond"}) : effects[r][k].status = 200

(***************************************************************************)
(* C5: once launch and navigation have succeeded, no failure of a click,   *)
(* focus or type action (selector click, coordinate click, focus, typing)  *)
(* becomes a run-level failure: the response is {ok: true}.                *)
(***************************************************************************)
C5_StepFailuresNeverFatal ==
  \A r \in Reqs :
     (StepsGiven(r) /\ SettledAs(r, "goto", "resolved")) =>
        \A k \in Issued(r, {"respond"}) :
           /\ effects[r][k].status = 200
           /\ effects[r][k].body = "ok"

(***************************************************************************)
(* C6: when the launch, the opening of the page or the navigation fails,   *)
(* the run ends with the HTTP 500 failure response and no step is          *)
(* executed: no wait, click, focus or typing of any step.                  *)
(***************************************************************************)
C6_SetupFailureAbortsRun ==
  \A r \in Reqs :
     (\E c \in {"launch", "newPage", "goto"} : SettledAs(r, c, "rejected")) =>
        /\ pc[r] = "done"
        /\ Len(Responses(r)) = 1
        /\ Responses(r)[1].status = 500
        /\ Responses(r)[1].body = "Automation run failed"
        /\ Issued(r, StepOps) = {}
        /\ idx[r] = 0
        /\ outcomes[r] = <<>>

C6_Witness ==
  \E r \in Reqs :
     /\ SettledAs(r, "goto", "rejected")
     /\ Len(Responses(r)) = 1
     /\ Responses(r)[1].status = 500
     /\ NumSteps(r) = MaxSteps

SpeedPositive(r) ==
  /\ req[r] # NoRequest
  /\ req[r] # Undef
  /\ req[r].speed.t = "number"
  /\ req[r].speed.n > 0

\* step.delay / speed floored at 0, a missing delay counting as 0
ScaledDelay(step, sp) ==
  LET d == IF step.delay = Undef THEN Number(0) ELSE step.delay
      q == Num(d.n * sp.d, d.d * sp.n)
  IN  IF q.n < 0 THEN Number(0) ELSE q

ActionOps == {"click", "mouse.click", "focus", "keyboard.type"}

(***************************************************************************)
(* C7: for a positive speed factor the waits issued are exactly the        *)
(* non-zero values of step.delay / speed floored at 0 (missing delay = 0), *)
(* one per step, in step order and before the step's action; delay 1000    *)
(* waits 500 at speed 2 and 2000 at speed 0.5.                             *)
(***************************************************************************)
C7_EffectiveDelay ==
  \A r \in Reqs :
     (Received(r) /\ StepsGiven(r) /\ SpeedPositive(r)) =>
        /\ Waits(r) = DemandedWaits(r, ScaledDelay)
        /\ \A k \in Issued(r, {"waitForTimeout"}) :
              /\ \A a \in Issued(r, ActionOps) :
                    effects[r][a].i = effects[r][k].i => k < a
              /\ (StepAt(r, effects[r][k].i).delay = Number(1000)
                    /\ req[r].speed = Number(2))
                   => effects[r][k].ms = Number(500)
              /\ (StepAt(r, effects[r][k].i).delay = Number(1000)
                    /\ req[r].speed = Num(1, 2))
                   => effects[r][k].ms = Number(2000)

C7_Witness ==
  \E r \in Reqs :
     /\ StepsGiven(r)
     /\ SpeedPositive(r)
     /\ req[r].speed = Num(1, 2)
     /\ \E k \in Issued(r, {"waitForTimeout"}) :
           /\ StepAt(r, effects[r][k].i).delay = Number(1000)
           /\ effects[r][k].ms = Number(2000)
     /\ SettledAs(r, "mouse.click", "resolved")

\* a type step whose selector is absent or empty
TypeWithoutSelector(step) ==
  /\ step.type = Str("type")
  /\ step.selector = Undef \/ step.selector = Str("")

(***************************************************************************)
(* C8: a type step whose selector is absent or empty is skipped: no focus  *)
(* call and no typing call (no driver action at all) is issued for it, it  *)
(* cannot end the run with a failure, and the loop goes on to the next     *)
(* step.                                                                   *)
(***************************************************************************)
C8_TypeWithoutSelectorSkipped ==
  \A r \in Reqs :
     (Received(r) /\ StepsGiven(r)) =>
        \A i \in 1..idx[r] :
           TypeWithoutSelector(StepAt(r, i)) =>
              /\ \A k \in Issued(r, ActionOps) : effects[r][k].i # i
              /\ idx[r] = i => pc[r] \in {"waitForTimeout", "loop", "done"}
              /\ (idx[r] = i /\ pc[r] = "done") => RunOk(r)
              /\ (idx[r] = i /\ pc[r] = "loop" /\ i < NumSteps(r))
                   => ENABLED NextStep(r)
              /\ (idx[r] > i \/ pc[r] \in {"loop", "done"})
                   => /\ Len(outcomes[r]) >= i
                      /\ outcomes[r][i] = [index |-> i, status |-> "skipped"]

C8_Witness ==
  \E r \in Reqs :
     /\ StepsGiven(r)
     /\ idx[r] = 2
     /\ TypeWithoutSelector(StepAt(r, 1))
     /\ StepAt(r, 1).selector = Undef
     /\ \E k \in Issued(r, {"focus"}) : effects[r][k].i = 2

(***************************************************************************)
(* C9: every browser session a run has opened gets closed: once the        *)
(* handler has ended, a session still open has its close pending (timer    *)
(* armed or close in progress), after a completed run and after an         *)
(* aborted one alike.                                                      *)
(***************************************************************************)
C9_SessionAlwaysReleased ==
  \A r \in Reqs :
     (browser[r] = "open" /\ pc[r] = "done") =>
        timer[r].state \in {"pending", "closing"}

(***************************************************************************)
(* C10: after a successful run the {ok: true} response is sent first and   *)
(* the close is then scheduled by a 30000 ms timer; the session stays open *)
(* meanwhile, the close is called no earlier than 30000 ms after the       *)
(* response and under no further condition, and a rejected close changes   *)
(* nothing: no second response, no log line, the handler stays ended.      *)
(***************************************************************************)
C10_DelayedTeardown ==
  \A r \in Reqs :
     /\ \A k \in Issued(r, {"respond"}) :
           effects[r][k].status = 200 =>
              /\ k < Len(effects[r])
              /\ effects[r][k + 1].op = "setTimeout"
     /\ \A k \in Issued(r, {"setTimeout"}) :
           /\ k > 1
           /\ effects[r][k - 1].op = "respond"
           /\ effects[r][k - 1].status = 200
           /\ effects[r][k].ms = Number(30000)
           /\ \A j \in (k + 1)..Len(effects[r]) :
                 effects[r][j].op \in {"close", "settled"}
     /\ \A k \in Issued(r, {"close"}) :
           \E j \in Issued(r, {"setTimeout"}) :
              /\ j < k
              /\ JsLeq(JsAdd(effects[r][j].at, Number(30000)), effects[r][k].at)
     /\ timer[r].state = "pending" =>
           /\ browser[r] = "open"
           /\ Issued(r, {"close"}) = {}
           /\ JsLeq(timer[r].due, now) => ENABLED TimerFire(r)
     /\ timer[r].state # "unset" =>
           /\ RunOk(r)
           /\ Cardinality(Issued(r, {"setTimeout"})) = 1
           /\ Cardinality(Issued(r, {"close"})) <= 1
     /\ timer[r].state \in {"closing", "closed", "swallowed"} =>
           Cardinality(Issued(r, {"close"})) = 1

C10_Witness ==
  \E r \in Reqs :
     /\ timer[r].state = "swallowed"
     /\ SettledAs(r, "close", "rejected")
     /\ RunOk(r)
     /\ browser[r] = "open"

\* everything the handler of request r holds or has done
Local(r) ==
  <<pc[r], idx[r], browser[r], effects[r], timer[r], wakeAt[r],
    lastTimestamp[r], outcomes[r], handle[r]>>

(***************************************************************************)
(* C11: under any interleaving of concurrent requests, every request that  *)
(* launches gets a browser object of its own, every call on a browser or   *)
(* page (step actions and the close of the teardown) goes to the           *)
(* request's own browser, and no step of one handler changes anything      *)
(* another handler holds.                                                  *)
(***************************************************************************)
C11_RequestsIsolated ==
  /\ [](\A r \in Reqs :
          /\ handle[r] \in 0..launches
          /\ handle[r] # 0 <=> SettledAs(r, "launch", "resolved")
          /\ \A q \in Reqs \ {r} : handle[r] # 0 => handle[q] # handle[r]
          /\ \A k \in Issued(r, SessionOps) :
                /\ effects[r][k].on # 0
                /\ effects[r][k].on = handle[r]
                /\ \A q \in Reqs \ {r} : effects[r][k].on # handle[q])
  /\ [][\A r \in Reqs : \A q \in Reqs \ {r} :
          Local(r)' = Local(r) \/ Local(q)' = Local(q)]_vars

C11_Witness ==
  \E r \in Reqs : \E q \in Reqs \ {r} :
     /\ timer[r].state = "closed"
     /\ browser[r] = "closed"
     /\ pc[q] = "mouse.click"
     /\ browser[q] = "open"
     /\ handle[r] # handle[q]

\* the sum of the effective delays of the first n steps of request r
RECURSIVE SumOfDelays(_, _)
SumOfDelays(r, n) ==
  IF n = 0 THEN Number(0)
  ELSE JsAdd(SumOfDelays(r, n - 1), delay(StepAt(r, n), req[r].speed))

(***************************************************************************)
(* C12: the steps of a run are strictly sequential.  Every driver call of  *)
(* a step is completed before anything else is issued, the wait of a step  *)
(* comes first in the step and is completed no earlier than its full       *)
(* length after it was issued, nothing of a later step precedes anything   *)
(* of an earlier one, and a run that ends with {ok: true} has taken at     *)
(* least the sum of its effective delays (150 for delays 100 and 50 at     *)
(* speed 1).                                                               *)
(***************************************************************************)
C12_StepsStrictlySequential ==
  \A r \in Reqs :
     LET E == effects[r] IN
     /\ \A k \in Issued(r, StepOps) :
           k < Len(E) =>
              /\ E[k + 1].op = "settled"
              /\ E[k + 1].call = E[k].op
              /\ E[k + 1].i = E[k].i
              /\ E[k].op = "waitForTimeout" =>
                    JsLeq(JsAdd(E[k].at, E[k].ms), E[k + 1].at)
     /\ \A k \in Issued(r, StepOps) : pc[r] = "done" => k < Len(E)
     /\ \A j \in 1..Len(E) : \A k \in 1..Len(E) :
           (j < k /\ E[j].i > 0 /\ E[k].i > 0) =>
              /\ E[j].i <= E[k].i
              /\ (E[j].i = E[k].i /\ E[j].op \in ActionOps) =>
                    E[k].op # "waitForTimeout"
     /\ (StepsGiven(r) /\ RunOk(r)) =>
           /\ JsLeq(SumOfDelays(r, NumSteps(r)), Responses(r)[1].at)
           /\ ( /\ NumSteps(r) = 2
                /\ StepAt(r, 1).delay = Number(100)
                /\ StepAt(r, 2).delay = Number(50)
                /\ req[r].speed = Number(1) )
              => JsLeq(Number(150), Responses(r)[1].at)

C12_Witness ==
  \E r \in Reqs :
     /\ StepsGiven(r)
     /\ RunOk(r)
     /\ req[r].speed = Number(1)
     /\ Waits(r) = <<Number(100), Number(50)>>
     /\ Issued(r, {"click"}) # {}
     /\ Issued(r, {"keyboard.type"}) # {}
     /\ Responses(r)[1].at = Number(150)

\* the three definitive outcomes of a request
Definitive(e) ==
  \/ e.status = 400 /\ e.body = "steps array is required"
  \/ e.status = 200 /\ e.body = "ok"
  \/ e.status = 500 /\ e.body = "Automation run failed"

(***************************************************************************)
(* C13: provided every driver call returns or throws, every request is     *)
(* answered, and answered exactly once: with the 400 validation error,     *)
(* with {ok: true} or with the 500 failure.  A handler that has ended has  *)
(* answered, an answer is never followed by a second one nor changed, and  *)
(* {ok: true} is sent only after the last step has been processed.         *)
(***************************************************************************)
C13_ExactlyOneOutcome ==
  /\ [](\A r \in Reqs :
          /\ Len(Responses(r)) <= 1
          /\ \A k \in 1..Len(Responses(r)) : Definitive(Responses(r)[k])
          /\ Received(r) => (pc[r] = "done" <=> Len(Responses(r)) = 1)
          /\ \A k \in 1..Len(Responses(r)) :
                Responses(r)[k].status = 200 =>
                   /\ StepsGiven(r)
                   /\ idx[r] = NumSteps(r)
                   /\ Len(outcomes[r]) = NumSteps(r)
                   /\ \A j \in Issued(r, StepOps \cup {"goto"}) :
                         j < Len(effects[r]) /\ effects[r][j + 1].op = "settled")
  /\ [][\A r \in Reqs :
          Responses(r) # <<>> => Responses(r)' = Responses(r)]_vars
  /\ \A r \in Reqs :
        (req[r] # NoRequest) ~> (pc[r] = "done" /\ Len(Responses(r)) = 1)

C13_Witness ==
  \E r \in Reqs :
     /\ StepsGiven(r)
     /\ NumSteps(r) = 2
     /\ SettledAs(r, "click", "rejected")
     /\ SettledAs(r, "waitForTimeout", "resolved")
     /\ RunOk(r)
     /\ timer[r].state = "closed"

\* the successes and failures the driver gave the handler of request r
DriverResults(r) ==
  LET s == SelectSeq(effects[r],
                     LAMBDA e : e.op = "settled" /\ e.call # "close")
  IN  [k \in 1..Len(s) |-> <<s[k].call, s[k].i, s[k].result>>]

\* what the handler of request r did up to its response, without the times
\* and the browser objects
Conduct(r) ==
  LET s == SelectSeq(effects[r],
                     LAMBDA e : e.op \in StepOps \cup
                                  {"launch", "newPage", "goto", "respond",
                                   "console.error", "setTimeout"})
  IN  [k \in 1..Len(s) |->
         <<s[k].op, s[k].i,
           IF s[k].op = "respond" THEN <<s[k].status, s[k].body>> ELSE <<>>>>]

(***************************************************************************)
(* C14: two runs of the same workflow on two independent sessions, given   *)
(* the same successes and failures by the driver, yield the same sequence  *)
(* of step outcomes, make the same calls in the same order and send the    *)
(* same response, however the two handlers interleave.                     *)
(***************************************************************************)
C14_RunsDeterministic ==
  \A r \in Reqs : \A q \in Reqs \ {r} :
     ( /\ req[r] = req[q]
       /\ handle[r] # handle[q]
       /\ pc[r] = "done"
       /\ pc[q] = "done"
       /\ DriverResults(r) = DriverResults(q) )
     => /\ outcomes[r] = outcomes[q]
        /\ Conduct(r) = Conduct(q)
        /\ Responses(r)[1].status = Responses(q)[1].status
        /\ Responses(r)[1].body = Responses(q)[1].body

C14_Witness ==
  \E r \in Reqs : \E q \in Reqs \ {r} :
     /\ req[r] = req[q]
     /\ handle[r] # handle[q]
     /\ RunOk(r)
     /\ RunOk(q)
     /\ SettledAs(r, "click", "rejected")
     /\ DriverResults(r) = DriverResults(q)
     /\ Len(outcomes[r]) = 2
     /\ timer[r].state = "closed"
     /\ timer[q].state = "pending"

\* the speed factor of request r, a missing one being 1
SpeedFactor(r) ==
  IF req[r].speed = Undef THEN Number(DefaultSpeed) ELSE req[r].speed

\* a type step the loop executes: it names an element and carries a text
TypeStepsEntered(r) ==
  { i \in 1..idx[r] :
      /\ StepAt(r, i).type = Str("type")
      /\ Truthy(StepAt(r, i).selector)
      /\ IsString(StepAt(r, i).value)
      /\ \E k \in 1..Len(effects[r]) :
            /\ effects[r][k].op = "settled"
            /\ effects[r][k].call = "focus"
            /\ effects[r][k].i = i
            /\ effects[r][k].result = "resolved" }

\* the keyboard.type call of step i
TypingOf(r, i) ==
  { k \in Issued(r, {"keyboard.type"}) : effects[r][k].i = i }

(***************************************************************************)
(* C15 (as stated): every type step that is executed is typed with an      *)
(* inter-character delay d such that d = 50 / speed, that is speed # 0     *)
(* and d * speed = 50, for every speed factor a run is started with.       *)
(***************************************************************************)
C15_CharDelayIsBaseOverSpeed ==
  \A r \in Reqs :
     (Received(r) /\ StepsGiven(r)) =>
        \A i \in TypeStepsEntered(r) :
           /\ TypingOf(r, i) # {}
           /\ \A k \in TypingOf(r, i) :
                 /\ SpeedFactor(r).n # 0
                 /\ effects[r][k].delay.n * SpeedFactor(r).n =
                      BaseCharDelayMs * effects[r][k].delay.d * SpeedFactor(r).d

(***************************************************************************)
(* C15 (amended): every type step that is executed is typed, its text      *)
(* being the step's value, with an inter-character delay equal to 50 ms    *)
(* divided by the speed factor, a speed factor of 0 acting as 1 (delay 50) *)
(* and a missing one being 1.                                              *)
(***************************************************************************)
C15_CharDelayZeroSpeedAsOne ==
  \A r \in Reqs :
     (Received(r) /\ StepsGiven(r)) =>
        \A i \in TypeStepsEntered(r) :
           /\ Cardinality(TypingOf(r, i)) = 1
           /\ \A k \in TypingOf(r, i) :
                 /\ effects[r][k].text = StepAt(r, i).value
                 /\ IF SpeedFactor(r).n = 0
                      THEN effects[r][k].delay = Number(BaseCharDelayMs)
                      ELSE effects[r][k].delay.n * SpeedFactor(r).n =
                             BaseCharDelayMs * effects[r][k].delay.d
                               * SpeedFactor(r).d

C15_Witness ==
  \E r \in Reqs :
     /\ StepsGiven(r)
     /\ req[r].speed = Number(0)
     /\ \E i \in TypeStepsEntered(r) : \E k \in TypingOf(r, i) :
           /\ effects[r][k].delay = Number(50)
           /\ effects[r][k].text = Str("hi")
     /\ SettledAs(r, "keyboard.type", "resolved")
     /\ RunOk(r)

\* the positions in the log where the call `call` of a step was rejected
RejectedAt(r, call) ==
  { k \in 1..Len(effects[r]) :
      /\ effects[r][k].op = "settled"
      /\ effects[r][k].call = call
      /\ effects[r][k].result = "rejected" }

ClickStepsWithBoth(r) ==
  { i \in 1..Len(outcomes[r]) :
      /\ StepAt(r, i).type = Str("click")
      /\ Truthy(StepAt(r, i).selector)
      /\ IsNumber(StepAt(r, i).x)
      /\ IsNumber(StepAt(r, i).y) }

\* step i ended with a click on the page made by `call`
ClickedBy(r, i, call) ==
  \E k \in 1..Len(effects[r]) :
     /\ effects[r][k].op = "settled"
     /\ effects[r][k].call = call
     /\ effects[r][k].i = i
     /\ effects[r][k].result = "resolved"

(***************************************************************************)
(* C17: a click step that carries both a selector and numeric x and y      *)
(* ends with a click on the page: the click by selector, or else, the      *)
(* selector click having failed, a click at (x, y).                        *)
(***************************************************************************)
C17_ClickFallsBackToCoordinates ==
  \A r \in Reqs :
     (Received(r) /\ StepsGiven(r)) =>
        \A i \in ClickStepsWithBoth(r) :
           \/ ClickedBy(r, i, "click")
           \/ /\ \E k \in Issued(r, {"mouse.click"}) :
                    /\ effects[r][k].i = i
                    /\ effects[r][k].x = StepAt(r, i).x
                    /\ effects[r][k].y = StepAt(r, i).y
              /\ \/ ClickedBy(r, i, "mouse.click")
                 \/ \E k \in RejectedAt(r, "mouse.click") : effects[r][k].i = i

(***************************************************************************)
(* The recorder page (App.tsx).  A state setter schedules an update; the   *)
(* next render applies the scheduled updates in order and assigns the two  *)
(* refs from the rendered state.  Handlers of the component read the state *)
(* of the last render, the window listeners read the refs.                 *)
(***************************************************************************)
MaxRecorded == 2

MaxTicks == 2

MaxRuns == 1

MaxPending == 2

Set(field, val) == [op |-> "set", field |-> field, val |-> val]

\* setSteps((prev) => [...prev, step])
AppendStep(step) == [op |-> "append", field |-> "steps", val |-> step]

ApplyUpdate(s, u) ==
  IF u.op = "append"
    THEN [s EXCEPT !.steps = Append(@, u.val)]
    ELSE [s EXCEPT ![u.field] = u.val]

RECURSIVE ApplyAll(_, _)
ApplyAll(s, q) ==
  IF q = <<>> THEN s ELSE ApplyAll(ApplyUpdate(s, Head(q)), Tail(q))

\* the updates of the handler runs in q, in order
RECURSIVE Flatten(_)
Flatten(q) == IF q = <<>> THEN <<>> ELSE Head(q) \o Flatten(Tail(q))

\* the state the next render shows
Shown == ApplyAll(ui, Flatten(queue))

\* the elements of the page an event can target: what getUniqueSelector
\* gives for them (class lists shortened) and where they are
Target(selector, x, y) == [selector |-> selector, x |-> x, y |-> y]

Heading == Target(Str("h1.text-2xl"), 40, 30)

StartButton == Target(Str("button.start"), 700, 30)

StopButton == Target(Str("button.stop"), 800, 30)

RunButton == Target(Str("button.run"), 60, 200)

ClearButton == Target(Str("button.clear"), 500, 300)

UrlInput == Target(Str("input.w-full"), 100, 150)

SpeedSelect == Target(Str("select.w-full"), 500, 150)

Textarea == Target(Str("textarea.mt-1"), 100, 350)

\* lastTimeRef.current ? now - lastTimeRef.current : 0
SinceLast == IF Truthy(lastTimeRef) THEN clock - lastTimeRef.n ELSE 0

\* the updates one handler run has scheduled
Batch(q, updates) == IF updates = <<>> THEN q ELSE Append(q, updates)

Scheduled(updates) == queue' = Batch(queue, updates)

\* the page has not gone without a render for too many handler runs
Responsive == Len(queue) < MaxPending

\* the history entry of an event: when it was handled, the step recorded
\* for it and its delay, and whether the listeners saw the recording on
Recorded(kind, step) ==
  [kind |-> kind, at |-> clock, delay |-> step.delay.n, step |-> step,
   on |-> recordingRef]

handleClick_AlwaysRecords(target) ==
  LET step == Step(Str("click"), target.selector, Number(target.x),
                   Number(target.y), Undef, Number(SinceLast))
  IN  [updates |-> <<AppendStep(step), Set("lastTime", Number(clock))>>,
       log |-> <<Recorded("click", step)>>]

\* handleClick: the capture-phase click listener on window
handleClick(target) ==
  IF ~recordingRef
    THEN [updates |-> <<>>, log |-> <<>>]
    ELSE LET step == Step(Str("click"), target.selector, Number(target.x),
                          Number(target.y), Undef, Number(SinceLast))
         IN  [updates |-> <<AppendStep(step), Set("lastTime", Number(clock))>>,
              log |-> <<Recorded("click", step)>>]

\* handleInput: the capture-phase input listener on window
handleInput(target, value) ==
  IF ~recordingRef
    THEN [updates |-> <<>>, log |-> <<>>]
    ELSE LET step == Step(Str("type"), JsOr(target.selector, Str("input")),
                          Undef, Undef, value, Number(SinceLast))
         IN  [updates |-> <<AppendStep(step), Set("lastTime", Number(clock))>>,
              log |-> <<Recorded("input", step)>>]

\* the session goes on: the last run has not been submitted yet
Active == Len(sent) < MaxRuns

\* room for one more recorded step
Room ==
  /\ Active
  /\ Responsive
  /\ ~recordingRef \/ (Len(Shown.steps) < MaxRecorded /\ Len(trace) <= MaxRecorded)

\* time passes on the page
Elapse ==
  /\ Active
  /\ clock < PageLoadTime + 50 * MaxTicks
  /\ clock' = clock + 50
  /\ UNCHANGED <<srvVars, ui, queue, recordingRef, lastTimeRef, sent, trace>>

\* a render of App: the scheduled updates take effect, lines 46-50 run
Render ==
  /\ queue # <<>>
  /\ ui' = Shown
  /\ queue' = <<>>
  /\ recordingRef' = Shown.recording
  /\ lastTimeRef' = Shown.lastTime
  /\ UNCHANGED <<srvVars, clock, sent, trace>>

\* a window listener has run: its updates wait for the next render and,
\* when it recorded a step, the history notes the time
Listened(h) ==
  /\ Scheduled(h.updates)
  /\ trace' = trace \o h.log

\* a handler React dispatches has run after the window listener: React
\* renders before the event ends, with every update scheduled so far
Handled(h, updates) ==
  /\ ui' = ApplyAll(ui, Flatten(queue) \o h.updates \o updates)
  /\ queue' = <<>>
  /\ recordingRef' = ui'.recording
  /\ lastTimeRef' = ui'.lastTime
  /\ trace' = trace \o h.log

NoEvent == [updates |-> <<>>, log |-> <<>>]

\* a click on an element that has no handler of its own
ClickPage ==
  /\ Room
  /\ Listened(handleClick(Heading))
  /\ UNCHANGED <<srvVars, ui, recordingRef, lastTimeRef, clock, sent>>

\* text entered into the textarea (it has no onChange)
InputPage ==
  /\ Room
  /\ Listened(handleInput(Textarea, Str("{}")))
  /\ UNCHANGED <<srvVars, ui, recordingRef, lastTimeRef, clock, sent>>

\* onChange={(e) => setTargetUrl(e.target.value)}
InputUrl(u) ==
  /\ Room
  /\ Handled(handleInput(UrlInput, u), <<Set("targetUrl", u)>>)
  /\ UNCHANGED <<srvVars, clock, sent>>

\* function startRecording(), reached by a click on the enabled button;
\* its `lastTimeRef.current = now` is overwritten alike by the render
startRecording ==
  /\ ~ui.recording
  /\ Active
  /\ ui' = ApplyAll(ui, Flatten(queue) \o handleClick(StartButton).updates \o
                     <<Set("steps", <<>>), Set("error", ""),
                       Set("status", "Recording..."),
                       Set("lastTime", Number(clock)), Set("recording", TRUE)>>)
  /\ queue' = <<>>
  /\ recordingRef' = ui'.recording
  /\ lastTimeRef' = ui'.lastTime
  /\ trace' = <<[kind |-> "start", at |-> clock, delay |-> 0, step |-> Null,
                 on |-> TRUE]>>
  /\ UNCHANGED <<srvVars, clock, sent>>

stopRecording_BeforeListener ==
  /\ ui.recording
  /\ Room
  /\ Handled(NoEvent, <<Set("recording", FALSE), Set("status", "Recording stopped.")>>)
  /\ UNCHANGED <<srvVars, clock, sent>>

\* function stopRecording(), reached by a click on the enabled button
stopRecording ==
  /\ ui.recording
  /\ Room
  /\ Handled(handleClick(StopButton),
             <<Set("recording", FALSE), Set("status", "Recording stopped.")>>)
  /\ UNCHANGED <<srvVars, clock, sent>>

\* onClick={() => setSteps([])}, disabled={!steps.length}
ClearLoadedSteps ==
  /\ ui.steps # <<>>
  /\ Room
  /\ Handled(handleClick(ClearButton), <<Set("steps", <<>>)>>)
  /\ UNCHANGED <<srvVars, clock, sent>>

\* <option> values of the speed select the user picks
SpeedOptions == {"0.5", "2"}

\* Number(e.target.value) on the option values
ToNumber(v) ==
  CASE v = "0.5" -> Num(1, 2)
    [] v = "1"   -> Number(1)
    [] v = "2"   -> Number(2)
    [] v = "4"   -> Number(4)

\* onChange={(e) => setSpeed(Number(e.target.value) || 1)}
SelectSpeed(v) ==
  /\ Room
  /\ Handled(handleInput(SpeedSelect, Str(v)),
             <<Set("speed", JsOr(ToNumber(v), Number(1)))>>)
  /\ UNCHANGED <<srvVars, clock, sent>>

(***************************************************************************)
(* The textarea: what is in it when it loses the focus.  A text is blank,  *)
(* or not JSON, or JSON, given by the value JSON.parse returns for it.     *)
(***************************************************************************)
PastedStep == Step(Str("click"), Str("#a"), Undef, Undef, Undef, Number(100))

PastedSteps ==
  {Undef, Str("steps"), Arr(<<>>), Arr(<<PastedStep>>)}

PastedUrls == {Undef, Str(""), Str("https://pasted.test"), Number(3)}

PastedSpeeds == {Undef, Number(0), Number(-1), Number(2), Str("2")}

\* objects without a usable `steps` (their url and speed are good ones) and
\* objects with one, with every url and speed
JsonValues ==
  {Null, Number(7), Arr(<<>>), Arr(<<PastedStep, PastedStep>>)} \cup
  { Body(s, Number(2), Str("https://pasted.test")) :
      s \in PastedSteps \ {Arr(<<PastedStep>>)} } \cup
  { Body(Arr(<<PastedStep>>), sp, u) : sp \in PastedSpeeds, u \in PastedUrls }

Texts ==
  {[kind |-> "blank"], [kind |-> "malformed"]} \cup
  { [kind |-> "json", value |-> v] : v \in JsonValues }

\* parsed.name
GetProp(v, name) == IF v.t = "object" THEN v[name] ELSE Undef

ParseError == "Failed to parse pasted JSON. Check the format."

NoStepsError == "Pasted JSON must contain a non-empty steps array."

onBlur_SpeedUnchecked(text) ==
  IF text.kind = "blank" THEN <<>>
  ELSE IF text.kind = "malformed" \/ text.value = Null
    THEN <<Set("error", ParseError)>>
  ELSE
    LET parsed == text.value
        newSteps == IF IsArray(parsed) THEN parsed ELSE GetProp(parsed, "steps")
    IN  IF ~IsArray(newSteps) \/ newSteps.items = <<>>
          THEN <<Set("error", NoStepsError)>>
          ELSE <<Set("steps", newSteps.items)>>
               \o (IF Truthy(GetProp(parsed, "url")) /\ IsString(GetProp(parsed, "url"))
                     THEN <<Set("targetUrl", GetProp(parsed, "url"))>> ELSE <<>>)
               \o (IF Truthy(GetProp(parsed, "speed"))
                     THEN <<Set("speed", GetProp(parsed, "speed"))>> ELSE <<>>)
               \o <<Set("error", ""), Set("status", "Loaded steps from pasted JSON.")>>

\* the updates the textarea's onBlur schedules.  JSON.parse throws on a
\* malformed text and `parsed.steps` throws on null: both reach the catch.
onBlur(text) ==
  IF text.kind = "blank" THEN <<>>
  ELSE IF text.kind = "malformed" \/ text.value = Null
    THEN <<Set("error", ParseError)>>
  ELSE
    LET parsed == text.value
        newSteps == IF IsArray(parsed) THEN parsed ELSE GetProp(parsed, "steps")
    IN  IF ~IsArray(newSteps) \/ newSteps.items = <<>>
          THEN <<Set("error", NoStepsError)>>
          ELSE <<Set("steps", newSteps.items)>>
               \o (IF Truthy(GetProp(parsed, "url")) /\ IsString(GetProp(parsed, "url"))
                     THEN <<Set("targetUrl", GetProp(parsed, "url"))>> ELSE <<>>)
               \o (IF Truthy(GetProp(parsed, "speed")) /\ IsNumber(GetProp(parsed, "speed"))
                     THEN <<Set("speed", GetProp(parsed, "speed"))>> ELSE <<>>)
               \o <<Set("error", ""), Set("status", "Loaded steps from pasted JSON.")>>

\* the textarea loses the focus
Blur(text) ==
  /\ Active
  /\ Handled(NoEvent, onBlur(text))
  /\ UNCHANGED <<srvVars, clock, sent>>

runAutomation_EmptyUnchecked(s) ==
  [updates |-> <<Set("error", ""),
                 Set("status", "Sending workflow to backend...")>>,
   post |-> <<[steps |-> s.steps, speed |-> s.speed, url |-> s.targetUrl,
               state |-> "pending"]>>]

\* async function runAutomation() of the render that shows s, up to its
\* fetch: the updates it schedules and the body it posts
runAutomation(s) ==
  IF Len(s.steps) = 0
    THEN [updates |-> <<Set("error", ""), Set("error", "No steps recorded yet.")>>,
          post |-> <<>>]
    ELSE [updates |-> <<Set("error", ""),
                        Set("status", "Sending workflow to backend...")>>,
          post |-> <<[steps |-> s.steps, speed |-> s.speed, url |-> s.targetUrl,
                      state |-> "pending"]>>]

\* a click on Run Automation.  The window listener runs first; `mid` tells
\* whether the page renders before the button's onClick runs, that is
\* which render's runAutomation is called.
ClickRun ==
  /\ Room
  /\ \E mid \in BOOLEAN :
       LET h == handleClick(RunButton)
           seen == IF mid THEN ApplyAll(ui, Flatten(queue) \o h.updates) ELSE ui
           run == runAutomation(seen)
       IN  /\ Handled(h, run.updates)
           /\ sent' = sent \o run.post
  /\ UNCHANGED <<srvVars, clock>>

FetchOutcomes == {"ok", "error", "status", "unreachable"}

\* runAutomation after its fetch: the response is ok, or not ok with or
\* without an `error` in its body, or the fetch rejects
FetchSettled(k, outcome) ==
  /\ k \in 1..Len(sent)
  /\ sent[k].state = "pending"
  /\ Responsive
  /\ sent' = [sent EXCEPT ![k].state = outcome]
  /\ Scheduled(
       CASE outcome = "ok" ->
              <<Set("status",
                    "Automation triggered. Check the Puppeteer browser window.")>>
         [] outcome = "error" ->
              <<Set("error", "Automation run failed"), Set("status", "")>>
         [] outcome = "status" ->
              <<Set("error", "Request failed with status 500"), Set("status", "")>>
         [] outcome = "unreachable" ->
              <<Set("error", "Failed to reach backend. Is npm run server running?"),
                Set("status", "")>>)
  /\ UNCHANGED <<srvVars, ui, recordingRef, lastTimeRef, clock, trace>>

UrlsTyped == {Str("https://pasted.test")}

NextUI ==
  \/ Elapse
  \/ Render
  \/ ClickPage
  \/ InputPage
  \/ \E u \in UrlsTyped : InputUrl(u)
  \/ startRecording
  \/ stopRecording
  \/ ClearLoadedSteps
  \/ \E v \in SpeedOptions : SelectSpeed(v)
  \/ \E text \in Texts : Blur(text)
  \/ ClickRun
  \/ \E k \in 1..MaxRuns : \E outcome \in FetchOutcomes : FetchSettled(k, outcome)

\* the page alone: no request is in flight at the server
InitUI ==
  /\ req = [r \in Reqs |-> NoRequest]
  /\ HandlersIdle
  /\ PageLoaded

SpecUI == InitUI /\ [][NextUI]_vars

RECURSIVE SumOfRecordedDelays(_)
SumOfRecordedDelays(n) ==
  IF n <= 1 THEN 0 ELSE SumOfRecordedDelays(n - 1) + trace[n].delay

(***************************************************************************)
(* C18: in a recording, the delay stored for every recorded step is the    *)
(* time elapsed since the previously recorded step, or since               *)
(* startRecording for the first one, however the click and input events    *)
(* interleave with the renders of the page; so the delays of a recording   *)
(* sum to the time between startRecording and the last recorded event.     *)
(***************************************************************************)
C18_DelaysAreElapsedTimes ==
  /\ \A k \in 2..Len(trace) : trace[k].delay = trace[k].at - trace[k - 1].at
  /\ Len(trace) >= 1 =>
        SumOfRecordedDelays(Len(trace)) = trace[Len(trace)].at - trace[1].at

\* the steps array of a pasted JSON value, if it has one
StepsOf(v) ==
  IF v.t = "array" THEN v ELSE IF v.t = "object" THEN v.steps ELSE Undef

HasSteps(text) ==
  /\ text.kind = "json"
  /\ StepsOf(text.value).t = "array"
  /\ StepsOf(text.value).items # <<>>

(***************************************************************************)
(* C19: when the textarea loses the focus with a text that is not blank:   *)
(* if the text is not JSON or holds no non-empty steps array, an error is  *)
(* shown and steps, target URL and speed stay as they were; if it holds a  *)
(* non-empty steps array, the steps become that array, the error is        *)
(* cleared, the target URL changes only if `url` is a string, and then to  *)
(* it, and the speed changes only if `speed` is a number, and then to it.  *)
(***************************************************************************)
C19_PasteLoad ==
  \A text \in Texts :
     text.kind # "blank" =>
        LET before == Shown
            after == ApplyAll(before, onBlur(text))
        IN  IF ~HasSteps(text)
              THEN /\ after.error \in {ParseError, NoStepsError}
                   /\ after.steps = before.steps
                   /\ after.targetUrl = before.targetUrl
                   /\ after.speed = before.speed
              ELSE /\ after.steps = StepsOf(text.value).items
                   /\ after.error = ""
                   /\ after.targetUrl # before.targetUrl =>
                         /\ text.value.t = "object"
                         /\ text.value.url.t = "string"
                         /\ after.targetUrl = text.value.url
                   /\ after.speed # before.speed =>
                         /\ text.value.t = "object"
                         /\ text.value.speed.t = "number"
                         /\ after.speed = text.value.speed

C19_Witness ==
  /\ ui.status = "Loaded steps from pasted JSON."
  /\ ui.error = ""
  /\ ui.steps = <<PastedStep>>
  /\ ui.targetUrl = Str("https://pasted.test")
  /\ ui.speed = Number(2)

(***************************************************************************)
(* C20: every workflow runAutomation has posted to the backend has a       *)
(* non-empty steps sequence and a speed factor greater than 0.             *)
(***************************************************************************)
C20_SubmittedWorkflowsValid ==
  \A k \in 1..Len(sent) :
     /\ Len(sent[k].steps) > 0
     /\ sent[k].speed.t = "number"
     /\ sent[k].speed.n > 0

(***************************************************************************)
(* C21: in a type step the text is typed only after the focus on the       *)
(* step's selector has succeeded.  When the focus fails, nothing is typed  *)
(* for that step, the failure is logged and not answered with a failure    *)
(* response, the step ends as failed, and the next step, if there is one,  *)
(* is taken up before the run ends.                                        *)
(***************************************************************************)
C21_TypeOnlyAfterFocus ==
  \A r \in Reqs :
     LET E == effects[r] IN
     /\ \A k \in Issued(r, {"keyboard.type"}) :
           /\ k > 1
           /\ E[k - 1].op = "settled"
           /\ E[k - 1].call = "focus"
           /\ E[k - 1].result = "resolved"
           /\ E[k - 1].i = E[k].i
           /\ StepAt(r, E[k].i).type = Str("type")
     /\ \A k \in RejectedAt(r, "focus") :
           /\ \A j \in Issued(r, {"keyboard.type"}) : E[j].i # E[k].i
           /\ E[k + 1].op = "console.error"
           /\ E[k + 1].msg = "Type failed"
           /\ k + 2 <= Len(E) => E[k + 2].op # "respond" \/ E[k + 2].status = 200
           /\ outcomes[r][E[k].i] = [index |-> E[k].i, status |-> "failed"]
           /\ (pc[r] = "done" /\ E[k].i < NumSteps(r)) =>
                 /\ idx[r] > E[k].i
                 /\ Len(outcomes[r]) > E[k].i
           /\ (pc[r] = "done" /\ RejectedAt(r, "mouse.click") = {}) => RunOk(r)

C21_Witness ==
  \E r \in Reqs :
     /\ StepsGiven(r)
     /\ NumSteps(r) = 2
     /\ \E k \in RejectedAt(r, "focus") : effects[r][k].i = 1
     /\ Issued(r, {"keyboard.type"}) = {}
     /\ SettledAs(r, "click", "resolved")
     /\ RunOk(r)

\* a step the loop can do nothing with: a click without a usable selector
\* and without numeric x and y, a type step whose value is not a string,
\* or a step of another type
Malformed(step) ==
  \/ /\ step.type = Str("click")
     /\ ~Truthy(step.selector)
     /\ ~(IsNumber(step.x) /\ IsNumber(step.y))
  \/ /\ step.type = Str("type")
     /\ ~IsString(step.value)
  \/ step.type \notin {Str("click"), Str("type")}

MalformedStepsTaken(r) == { i \in 1..idx[r] : Malformed(StepAt(r, i)) }

(***************************************************************************)
(* C22: a malformed step causes no click, focus or typing, its scaled      *)
(* delay is still waited, and it never aborts the run: a run that has      *)
(* taken up a malformed step processes every step and answers {ok: true}.  *)
(***************************************************************************)
C22_MalformedStepHarmless ==
  \A r \in Reqs :
     (Received(r) /\ StepsGiven(r)) =>
        \A i \in MalformedStepsTaken(r) :
           /\ \A k \in Issued(r, ActionOps) : effects[r][k].i # i
           /\ LET ms == delay(StepAt(r, i), req[r].speed)
              IN  Truthy(ms) =>
                     \E k \in Issued(r, {"waitForTimeout"}) :
                        effects[r][k].i = i /\ effects[r][k].ms = ms
           /\ pc[r] = "done" =>
                 /\ idx[r] = NumSteps(r)
                 /\ Len(outcomes[r]) = NumSteps(r)
                 /\ RunOk(r)


\* the steps the listeners recorded since the latest startRecording, in order
RecordedSteps ==
  IF Len(trace) < 2 THEN <<>>
  ELSE [k \in 1..(Len(trace) - 1) |-> trace[k + 1].step]

IsClickOn(step, target) ==
  /\ step.type = Str("click")
  /\ step.selector = target.selector
  /\ step.x = Number(target.x)
  /\ step.y = Number(target.y)

\* C24: the click that starts a recording is never recorded (the list is
\* empty right after it and no step of a click on Start Recording is ever in
\* the list or in the history), while the click that stops a recording is
\* appended as the final step of the list, a click step on Stop Recording,
\* handled with the recording still on, in the step that switches it off
C24_StartNotRecordedStopRecorded ==
  /\ [](/\ \A n \in 1..Len(Shown.steps) : ~IsClickOn(Shown.steps[n], StartButton)
        /\ \A k \in 2..Len(trace) : ~IsClickOn(trace[k].step, StartButton))
  /\ [][/\ (~recordingRef /\ recordingRef') =>
             (ui'.steps = <<>> /\ Len(trace') = 1)
        /\ (recordingRef /\ ~recordingRef') =>
             /\ Len(ui'.steps) = Len(Shown.steps) + 1
             /\ SubSeq(ui'.steps, 1, Len(Shown.steps)) = Shown.steps
             /\ IsClickOn(ui'.steps[Len(ui'.steps)], StopButton)
             /\ Len(trace') = Len(trace) + 1
             /\ trace'[Len(trace')].on
             /\ trace'[Len(trace')].step = ui'.steps[Len(ui'.steps)]]_vars

\* a recording was just stopped: the list ends with the click on Stop
\* Recording, after the click on the page made during the recording
C24_Witness ==
  /\ ~recordingRef
  /\ ui.status = "Recording stopped."
  /\ Len(trace) = 3
  /\ clock = trace[3].at
  /\ Len(ui.steps) = 2
  /\ IsClickOn(ui.steps[1], Heading)
  /\ IsClickOn(ui.steps[2], StopButton)
  /\ trace[3].step = ui.steps[2]


\* the outcomes of the fetch that are a non-OK response or no response
FetchFailures == {"error", "status", "unreachable"}

\* C25: a click on Run Automation whose runAutomation sees an empty list
\* sends nothing and leaves the page with the error "No steps recorded yet."
\* and the status it had; one that sees a non-empty list sends exactly one
\* request, holding that list; no request ever holds an empty list; and
\* when a request ends in a non-OK response or without a response, the next
\* render shows an error and an empty status
C25_RunAutomation ==
  /\ [](\A k \in 1..Len(sent) : sent[k].steps # <<>>)
  /\ [][/\ ClickRun =>
             /\ Len(sent') \in {Len(sent), Len(sent) + 1}
             /\ ui'.steps = <<>> => sent' = sent
             /\ ui.steps # <<>> => sent' # sent
             /\ sent' = sent =>
                  /\ ui'.error = "No steps recorded yet."
                  /\ ui'.status = Shown.status
             /\ sent' # sent =>
                  /\ SubSeq(sent', 1, Len(sent)) = sent
                  /\ sent'[Len(sent')].state = "pending"
                  /\ sent'[Len(sent')].steps \in {ui.steps, ui'.steps}
                  /\ ui'.error = ""
                  /\ ui'.status = "Sending workflow to backend..."
        /\ \A k \in 1..Len(sent) :
             (/\ Len(sent') = Len(sent)
              /\ sent[k].state = "pending"
              /\ sent'[k].state \in FetchFailures) =>
               /\ Shown'.error # ""
               /\ Shown'.status = ""]_vars

\* a request with the recorded steps got a non-OK response, and the page
\* shows the error with an empty status
C25_Witness ==
  /\ Len(sent) = 1
  /\ sent[1].state = "status"
  /\ sent[1].steps = ui.steps
  /\ queue = <<>>
  /\ ui.error = "Request failed with status 500"
  /\ ui.status = ""

====
